---- MODULE Spec2Model ----
(***************************************************************************)
(* A model of the connection, complexity-scoring and macro analysers of    *)
(* the EUDA analysis scripts:                                              *)
(*   - ConnectionAnalyzer          (src/excel-analyzer-file.py)            *)
(*   - ExcelConnectionAnalyzer     (src/excel-connection-analyzer.py)      *)
(*   - ExcelMacroAnalyzer and its command line (src/excel-macro-analyzer.py)*)
(*   - process_euda_file           (src/main-file.py, src/database-file.py) *)
(*   - analyze_excel_euda          (src/euda-analyzer-chatbot.py,           *)
(*                                  src/server-euda-analyzer.py)            *)
(*   - the chat of main            (src/local-path-euda-analyzer.py)        *)
(*   - _extract_procedures         (src/excel-macro-analyzer.py)            *)
(* Texts (connection strings, queries, M formulas) are represented by the  *)
(* counts and substring tests the code takes of them.                      *)
(***************************************************************************)
EXTENDS Integers, Sequences, FiniteSets, TLC

VARIABLES
    \* ConnectionAnalyzer (excel-analyzer-file.py)
    ca_file,          \* the analysed path: exists, suffix, readable (csv)
    os_name,          \* os.name
    ca_pc,            \* position inside analyze_file / _analyze_excel_file
    ca_connections,   \* self.connections
    ca_ran,           \* extractors that have run, in order
    ca_logged,        \* extractors whose failure was caught and logged
    ca_result,        \* what analyze_file returned or raised
    \* ExcelConnectionAnalyzer (excel-connection-analyzer.py)
    eca_path,         \* self.file_path
    eca_container,    \* what the file is: a zip package, an OLE file, neither
    eca_xlsx_format,  \* self.xlsx_format
    eca_pc,           \* position inside analyze
    eca_connections,  \* self.connections
    eca_branch,       \* which of _analyze_xlsx, _analyze_xls was entered
    eca_logged,       \* steps whose failure was caught and logged
    eca_scored,       \* connections _calculate_complexity assigned a score to
    eca_result,       \* what analyze returned or raised
    \* ExcelMacroAnalyzer and main (excel-macro-analyzer.py)
    m_args,           \* the command line: kind of args.path, args.recursive
    m_files,          \* suffixes of the files at the path: the file itself,
                      \* or the files directly in the directory, in glob order
    m_sub,            \* suffixes of the files in its subdirectories
    m_pc,             \* position inside main / analyze_file / analyze_directory
    excel,            \* the Excel application behind self.excel
    macro_info,       \* self.macro_info
    all_macro_info,   \* all_macro_info of analyze_directory
    m_todo,           \* the part of excel_files the loop has not reached
    m_extracted,      \* per call of extract_macros: the file and the
                      \* procedures _extract_procedures appended
    m_wb,             \* the workbook of the last extract_macros call:
                      \* path taken, calls of wb.Close(False), closed or not
    m_report,         \* the macro_info generate_report was handed
    m_pending,        \* the exception on its way out through finally
    m_result,         \* how main ended
    \* process_euda_file (main-file.py)
    pe_pc,            \* position inside process_euda_file
    pe_conn,          \* db.conn: "none", "open" or "closed"
    pe_loaded,        \* analyzer.load_file returned True
    pe_analysed,      \* analyzer.analyze_file returned the metadata
    pe_stored,        \* store_euda_metadata committed the row
    pe_chunks,        \* how many text chunks the loop has still to visit
    pe_log,           \* per visited chunk: what happened to its embedding
    pe_handler_failed,\* the rollback of a database handler raised
    pe_closes,        \* calls of analyzer.close and db.close so far
    pe_late_write,    \* a database write was issued after db.close
    pe_ret,           \* the value on its way out through finally
    pe_result,        \* what process_euda_file returned
    \* analyze_excel_euda (euda-analyzer-chatbot.py, server-euda-analyzer.py)
    ae_variant,       \* which of the two scripts runs
    ae_pc,            \* position inside analyze_excel_euda / generate_report
    ae_todo,          \* sheets of sheet_names the loop has not reached
    sheet_count,      \* analysis["sheet_count"]
    total_cells,      \* total_cells
    formula_cells,    \* formula_cells
    formulas_count,   \* analysis["formulas_count"]
    data_tables,      \* len(analysis["data_tables"])
    complexity_score, \* analysis["complexity_score"]
    ae_report,        \* the summary line generate_report wrote
    \* the chat of main (local-path-euda-analyzer.py)
    messages,         \* st.session_state.messages
    user_input,       \* the last user_input main handled
    chat_before,      \* st.session_state.messages when that input arrived
    chat_handled,     \* main has handled an input
    \* _extract_procedures (excel-macro-analyzer.py)
    lines,            \* code.split('\n'), each line by the patterns it matches
    line_index,       \* i
    xp_pc,            \* position: the outer loop, the inner loop, returned
    proc_code,        \* proc_code, as the indices of the lines it holds
    xp_macro_info,    \* the records appended to self.macro_info
    examined          \* per line: how often a loop has examined it

ca_vars == <<ca_file, os_name, ca_pc, ca_connections, ca_ran, ca_logged, ca_result>>

eca_vars ==
    <<eca_path, eca_container, eca_xlsx_format, eca_pc, eca_connections,
      eca_branch, eca_logged, eca_scored, eca_result>>

macro_vars ==
    <<m_args, m_files, m_sub, m_pc, excel, macro_info, all_macro_info, m_todo,
      m_extracted, m_wb, m_report, m_pending, m_result>>

pe_vars ==
    <<pe_pc, pe_conn, pe_loaded, pe_analysed, pe_stored, pe_chunks, pe_log,
      pe_handler_failed, pe_closes, pe_late_write, pe_ret, pe_result>>

ae_vars ==
    <<ae_variant, ae_pc, ae_todo, sheet_count, total_cells, formula_cells,
      formulas_count, data_tables, complexity_score, ae_report>>

chat_vars == <<messages, user_input, chat_before, chat_handled>>

xp_vars == <<lines, line_index, xp_pc, proc_code, xp_macro_info, examined>>

vars == <<ca_vars, eca_vars, macro_vars, pe_vars, ae_vars, chat_vars, xp_vars>>

----------------------------------------------------------------------------
(* Bounds of the model *)

MaxConnections == 2
MaxEcaConnections == 2
MaxJoins == 4
MaxSelects == 2
MaxSemis == 9
MaxIndents == 12
MaxColumns == 21
MaxFiles == 2
MaxSubFiles == 1
MaxProcs == 2
MaxChunks == 3
MaxSheets == 11
MaxMessages == 7
MaxLines == 4

(* Helpers *)

Min(a, b) == IF a < b THEN a ELSE b

SeqsUpTo(S, n) == UNION {[1..k -> S] : k \in 0..n}

IsPrefix(s, t) == Len(s) <= Len(t) /\ \A i \in 1..Len(s) : s[i] = t[i]

----------------------------------------------------------------------------
(* ConnectionAnalyzer: inputs *)

Names == {"n1", "n2"}

Suffixes == {".xlsx", ".XLSM", ".csv", ".CSV", ".xls", ""}

\* the suffix compared as written
SuffixAsWritten(s) == s

\* file_path.suffix.lower()
Lower(s) ==
    CASE s = ".XLSM" -> ".xlsm"
      [] s = ".CSV" -> ".csv"
      [] OTHER -> s

\* conn_type as the substring tests of _calculate_complexity_score see it
ConnTypes == [sql : BOOLEAN, oledb : BOOLEAN, web : BOOLEAN, csv : BOOLEAN]

\* query_text: None or empty, or the counts and substring tests taken of it
NoText == [present |-> FALSE]

QueryTexts ==
    {NoText} \cup
    { q \in [present : {TRUE}, joins : 0..MaxJoins, select_in : BOOLEAN,
             selects : 0..MaxSelects, from_in : BOOLEAN, with_in : BOOLEAN,
             as_in : BOOLEAN, over_in : BOOLEAN] :
        q.selects > 0 => q.select_in }

\* conn_string: None or empty, or its number of ';'
ConnStrings == {NoText} \cup [present : {TRUE}, semis : 0..MaxSemis]

\* a Power Query M formula: empty, or its counts
NumOperations == 10

Formulas ==
    {NoText} \cup
    [present : {TRUE}, indents : 0..MaxIndents, ops : 0..NumOperations,
     custom : BOOLEAN]

----------------------------------------------------------------------------
(* ConnectionAnalyzer: scoring *)

CalculateComplexityScoreUncapped(conn_type, conn_string, query_text) ==
    LET base == 3
        t == IF conn_type.sql THEN 2
             ELSE IF conn_type.oledb THEN 1
             ELSE IF conn_type.web THEN 2
             ELSE 0
        q == IF query_text.present
             THEN Min(query_text.joins, 3)
                  + (IF query_text.select_in /\ query_text.from_in
                        /\ query_text.selects > 1 THEN 1 ELSE 0)
                  + (IF query_text.with_in /\ query_text.as_in THEN 1 ELSE 0)
                  + (IF query_text.over_in THEN 1 ELSE 0)
             ELSE 0
        c == IF conn_string.present
             THEN Min(conn_string.semis \div 3, 2)
             ELSE 0
    IN  base + t + q + c

CalculateComplexityScore(conn_type, conn_string, query_text) ==
    LET base == 3
        t == IF conn_type.sql THEN 2
             ELSE IF conn_type.oledb THEN 1
             ELSE IF conn_type.web THEN 2
             ELSE 0
        q == IF query_text.present
             THEN Min(query_text.joins, 3)
                  + (IF query_text.select_in /\ query_text.from_in
                        /\ query_text.selects > 1 THEN 1 ELSE 0)
                  + (IF query_text.with_in /\ query_text.as_in THEN 1 ELSE 0)
                  + (IF query_text.over_in THEN 1 ELSE 0)
             ELSE 0
        c == IF conn_string.present
             THEN Min(conn_string.semis \div 3, 2)
             ELSE 0
    IN  Min(base + t + q + c, 10)

\* for op in operations: if op in formula: score += 1; if score >= 10: break
RECURSIVE OperationsLoop(_, _)
OperationsLoop(score, ops) ==
    IF ops = 0 THEN score
    ELSE IF score + 1 >= 10 THEN score + 1
    ELSE OperationsLoop(score + 1, ops - 1)

CalculatePowerqueryComplexity(formula) ==
    IF ~formula.present THEN 3
    ELSE LET s1 == 3 + Min(formula.indents \div 3, 3)
             s2 == OperationsLoop(s1, formula.ops)
             s3 == IF formula.custom THEN s2 + 2 ELSE s2
         IN  Min(s3, 10)

\* _analyze_csv_file, the try branch
CsvComplexity(column_count, has_date_column) ==
    2 + (IF column_count > 10 THEN 1 ELSE 0)
      + (IF column_count > 20 THEN 1 ELSE 0)
      + (IF has_date_column THEN 1 ELSE 0)

----------------------------------------------------------------------------
(* ConnectionAnalyzer: the records each extractor builds.  Site names the  *)
(* place in the code that built the record; Type is the literal the code   *)
(* gives, "(computed)" where the code derives it from the texts.           *)

Rec(name, site, type, score) ==
    [Name |-> name, Site |-> site, Type |-> type, ComplexityScore |-> score]

ConnectionsXmlRecords ==
    { Rec(n, "connections.xml", "(computed)", CalculateComplexityScore(t, c, q)) :
        n \in Names, t \in ConnTypes, c \in ConnStrings, q \in QueryTexts }

ExternalLinkRecords ==
    { Rec("External Link externalLink1", "external link", "External Workbook", 4) }

PowerQueryRecords ==
    { Rec(n, "Power Query", "(computed)", CalculatePowerqueryComplexity(f)) :
        n \in Names, f \in Formulas }

\* conn_type is one of three literals; only "SQL Server via Data Model" holds "sql"
DataModelTypes ==
    { [sql |-> s, oledb |-> FALSE, web |-> FALSE, csv |-> FALSE] : s \in BOOLEAN }

DataModelRecords ==
    { Rec("DataModel_item1_0", "data model", "(computed)",
          CalculateComplexityScore(t, c, NoText)) :
        t \in DataModelTypes, c \in ConnStrings \ {NoText} }

NamedRangeRecords ==
    { Rec(n, "named range", "Named Range Connection", 2) : n \in Names }

TableRecords == { Rec("Table_t1", "table", "Table Connection", 3) }

PivotTableRecords ==
    { Rec("PivotTable_s1_0", "pivot table", "Pivot Table Connection", 5) }

ComQueryTableRecords == { Rec(n, "COM", "Query Table", 5) : n \in Names }

ComConnectionRecords == { Rec(n, "COM", "(computed)", 6) : n \in Names }

CsvRecord(column_count, has_date_column) ==
    Rec("file.csv", "CSV", "CSV File", CsvComplexity(column_count, has_date_column))

CsvErrorRecord == Rec("file.csv", "CSV error", "CSV File (Error)", 1)

\* _analyze_csv_file: the record of the try branch, or of the except branch
AnalyzeCsvFile(readable, column_count, has_date_column) ==
    IF readable THEN CsvRecord(column_count, has_date_column) ELSE CsvErrorRecord

----------------------------------------------------------------------------
(* ConnectionAnalyzer: removal of duplicates, lines 456-465 *)

RemoveDuplicatesKeepLast(conns) ==
    LET F[i \in 0..Len(conns)] ==
          IF i = 0 THEN <<>>
          ELSE IF \E j \in (i + 1)..Len(conns) : conns[j].Name = conns[i].Name
               THEN F[i - 1]
               ELSE Append(F[i - 1], conns[i])
    IN  F[Len(conns)]

RemoveDuplicates(conns) ==
    LET F[i \in 0..Len(conns)] ==
          IF i = 0 THEN [unique |-> <<>>, names |-> {}]
          ELSE IF conns[i].Name \notin F[i - 1].names
               THEN [unique |-> Append(F[i - 1].unique, conns[i]),
                     names |-> F[i - 1].names \cup {conns[i].Name}]
               ELSE F[i - 1]
    IN  F[Len(conns)].unique

----------------------------------------------------------------------------
(* ConnectionAnalyzer: analyze_file and _analyze_excel_file *)

\* what an action of ConnectionAnalyzer leaves alone
NotConnectionAnalyzer == <<eca_vars, macro_vars, pe_vars, ae_vars, chat_vars, xp_vars>>

NoResult == [kind |-> "none", value |-> <<>>, exc |-> ""]
Returned(v) == [kind |-> "return", value |-> v, exc |-> ""]
Raised(e) == [kind |-> "raise", value |-> <<>>, exc |-> e]

\* the other analysers, not constructed
ECAIdle ==
    /\ eca_path = "book.xlsx"
    /\ eca_container = "zip"
    /\ eca_xlsx_format = TRUE
    /\ eca_pc = "idle"
    /\ eca_connections = <<>>
    /\ eca_branch = "none"
    /\ eca_logged = {}
    /\ eca_scored = 0
    /\ eca_result = [kind |-> "none", value |-> <<>>, exc |-> ""]

NoReport == [made |-> FALSE, macro_info |-> <<>>]

NoWorkbook == [path |-> "not_opened", close_calls |-> 0, closed |-> FALSE]

NoCloses == [analyzer |-> 0, db |-> 0]

ProcessIdle ==
    /\ pe_pc = "idle"
    /\ pe_conn = "none"
    /\ pe_loaded = FALSE
    /\ pe_analysed = FALSE
    /\ pe_stored = FALSE
    /\ pe_chunks = 0
    /\ pe_log = <<>>
    /\ pe_handler_failed = FALSE
    /\ pe_closes = NoCloses
    /\ pe_late_write = FALSE
    /\ pe_ret = "none"
    /\ pe_result = "none"

NoSummary == [written |-> FALSE, error |-> FALSE, score |-> 0, out_of |-> 0]

AnalysisIdle ==
    /\ ae_variant = "chatbot"
    /\ ae_pc = "idle"
    /\ ae_todo = 0
    /\ sheet_count = 0
    /\ total_cells = 0
    /\ formula_cells = 0
    /\ formulas_count = 0
    /\ data_tables = 0
    /\ complexity_score = 0
    /\ ae_report = NoSummary

\* an input none of the tests of main finds anything in
PlainInput ==
    [excel_ext |-> FALSE, analyze |-> FALSE, xls |-> FALSE, clear |-> FALSE,
     reset |-> FALSE, help |-> FALSE, euda |-> FALSE]

Message(role, content) == [role |-> role, content |-> content]

Greeting == Message("assistant", "Hello! I can analyze your Excel EUDAs...")

ChatIdle ==
    /\ messages = <<Greeting>>
    /\ user_input = PlainInput
    /\ chat_before = <<>>
    /\ chat_handled = FALSE

ProceduresIdle ==
    /\ lines = <<>>
    /\ line_index = 0
    /\ xp_pc = "idle"
    /\ proc_code = <<>>
    /\ xp_macro_info = <<>>
    /\ examined = <<>>

MacroIdle ==
    /\ m_args = [kind |-> "missing", recursive |-> FALSE]
    /\ m_files = <<>>
    /\ m_sub = <<>>
    /\ m_pc = "idle"
    /\ excel = "none"
    /\ macro_info = <<>>
    /\ all_macro_info = <<>>
    /\ m_todo = <<>>
    /\ m_extracted = <<>>
    /\ m_wb = NoWorkbook
    /\ m_report = NoReport
    /\ m_pending = "none"
    /\ m_result = "none"

CAInit ==
    /\ ca_file \in [exists : BOOLEAN, suffix : Suffixes, readable : BOOLEAN]
    \* readable: whether the csv can be opened, sniffed and parsed
    /\ ~ca_file.readable => ca_file.exists /\ ca_file.suffix \in {".csv", ".CSV"}
    /\ os_name \in {"nt", "posix"}
    /\ ca_pc = "analyze_file"
    /\ ca_connections = <<>>
    /\ ca_ran = <<>>
    /\ ca_logged = {}
    /\ ca_result = NoResult

\* analyze_file, lines 409-411
AnalyzeFileNotFound ==
    /\ ca_pc = "analyze_file"
    /\ ~ca_file.exists
    /\ ca_result' = Raised("FileNotFoundError")
    /\ ca_pc' = "done"
    /\ UNCHANGED <<ca_file, os_name, ca_connections, ca_ran, ca_logged, NotConnectionAnalyzer>>

\* analyze_file, lines 419-421
AnalyzeFileUnsupported ==
    /\ ca_pc = "analyze_file"
    /\ ca_file.exists
    /\ Lower(ca_file.suffix) \notin {".xlsx", ".xlsm", ".csv"}
    /\ ca_result' = Raised("ValueError")
    /\ ca_pc' = "done"
    /\ UNCHANGED <<ca_file, os_name, ca_connections, ca_ran, ca_logged, NotConnectionAnalyzer>>

\* analyze_file, lines 417-418: return [self._analyze_csv_file(file_path)]
AnalyzeFileCsv ==
    /\ ca_pc = "analyze_file"
    /\ ca_file.exists
    /\ Lower(ca_file.suffix) = ".csv"
    /\ \E column_count \in 0..MaxColumns, has_date_column \in BOOLEAN :
         /\ has_date_column => column_count > 0
         /\ ca_result' = Returned(
              <<AnalyzeCsvFile(ca_file.readable, column_count, has_date_column)>>)
    /\ ca_pc' = "done"
    /\ UNCHANGED <<ca_file, os_name, ca_connections, ca_ran, ca_logged, NotConnectionAnalyzer>>

\* analyze_file, lines 415-416, and _analyze_excel_file, line 433
AnalyzeExcelFile ==
    /\ ca_pc = "analyze_file"
    /\ ca_file.exists
    /\ Lower(ca_file.suffix) \in {".xlsx", ".xlsm"}
    /\ ca_connections' = <<>>
    /\ ca_pc' = "internal"
    /\ UNCHANGED <<ca_file, os_name, ca_ran, ca_logged, ca_result, NotConnectionAnalyzer>>

\* an extractor without a handler of its own: its exception reaches the
\* handler of _analyze_excel_file, which skips what is left of the try block
ExtractorStepUncaught(name, recs, failed, next) ==
    /\ ca_connections' = ca_connections \o recs
    /\ ca_ran' = Append(ca_ran, name)
    /\ ca_logged' = IF failed THEN ca_logged \cup {name} ELSE ca_logged
    /\ ca_pc' = IF failed THEN "dedup" ELSE next
    /\ UNCHANGED <<ca_file, os_name, ca_result, NotConnectionAnalyzer>>

\* an extractor appended recs; failed: an exception ended it, caught and logged
\* inside the extractor
ExtractorStep(name, recs, failed, next) ==
    /\ ca_connections' = ca_connections \o recs
    /\ ca_ran' = Append(ca_ran, name)
    /\ ca_logged' = IF failed THEN ca_logged \cup {name} ELSE ca_logged
    /\ ca_pc' = next
    /\ UNCHANGED <<ca_file, os_name, ca_result, NotConnectionAnalyzer>>

Room == MaxConnections - Len(ca_connections)

ExtractInternalConnections ==
    /\ ca_pc = "internal"
    /\ \E a \in SeqsUpTo(ConnectionsXmlRecords, Room), failed \in BOOLEAN :
         \E b \in SeqsUpTo(ExternalLinkRecords, Room - Len(a)) :
            ExtractorStep("internal", a \o b, failed, "power_query")

ExtractPowerQueryConnections ==
    /\ ca_pc = "power_query"
    /\ \E a \in SeqsUpTo(PowerQueryRecords, Room), failed \in BOOLEAN :
         \E b \in SeqsUpTo(DataModelRecords, Room - Len(a)) :
            ExtractorStep("power_query", a \o b, failed, "openpyxl")

ExtractOpenpyxlConnections ==
    /\ ca_pc = "openpyxl"
    /\ \E a \in SeqsUpTo(NamedRangeRecords, Room), failed \in BOOLEAN :
         \E b \in SeqsUpTo(TableRecords, Room - Len(a)) :
           \E c \in SeqsUpTo(PivotTableRecords, Room - Len(a) - Len(b)) :
              ExtractorStep("openpyxl", a \o b \o c, failed, "com")

ExtractComConnectionsOnWindows ==
    /\ ca_pc = "com"
    /\ os_name = "nt"
    /\ \E a \in SeqsUpTo(ComQueryTableRecords, Room), failed \in BOOLEAN :
         \E b \in SeqsUpTo(ComConnectionRecords, Room - Len(a)) :
            ExtractorStep("com", a \o b, failed, "dedup")

\* lines 447-451: COM extraction is attempted
ExtractComConnections ==
    /\ ca_pc = "com"
    /\ os_name = "nt" /\ ca_connections = <<>>
    /\ \E a \in SeqsUpTo(ComQueryTableRecords, Room), failed \in BOOLEAN :
         \E b \in SeqsUpTo(ComConnectionRecords, Room - Len(a)) :
            ExtractorStep("com", a \o b, failed, "dedup")

\* lines 447: the condition is false
SkipComConnections ==
    /\ ca_pc = "com"
    /\ ~(os_name = "nt" /\ ca_connections = <<>>)
    /\ ca_pc' = "dedup"
    /\ UNCHANGED <<ca_file, os_name, ca_connections, ca_ran, ca_logged, ca_result,
                   NotConnectionAnalyzer>>

\* lines 456-465
ReturnUniqueConnections ==
    /\ ca_pc = "dedup"
    /\ ca_result' = Returned(RemoveDuplicates(ca_connections))
    /\ ca_pc' = "done"
    /\ UNCHANGED <<ca_file, os_name, ca_connections, ca_ran, ca_logged, NotConnectionAnalyzer>>

CANext ==
    \/ AnalyzeFileNotFound
    \/ AnalyzeFileUnsupported
    \/ AnalyzeFileCsv
    \/ AnalyzeExcelFile
    \/ ExtractInternalConnections
    \/ ExtractPowerQueryConnections
    \/ ExtractOpenpyxlConnections
    \/ ExtractComConnections
    \/ SkipComConnections
    \/ ReturnUniqueConnections

InitCA == CAInit /\ ECAIdle /\ MacroIdle /\ ProcessIdle /\ AnalysisIdle /\ ChatIdle /\ ProceduresIdle

SpecCA == InitCA /\ [][CANext]_vars

----------------------------------------------------------------------------
(* ExcelConnectionAnalyzer (excel-connection-analyzer.py): inputs.         *)
(* A connection string and a query text are the features the code reads    *)
(* off them.                                                               *)

EcaPaths == {"book.xlsx", "BOOK.XLSX", "book.xls", "book.xlsm"}

\* file_path.lower()
PathLower(p) == IF p = "BOOK.XLSX" THEN "book.xlsx" ELSE p

\* str.endswith('.xlsx'), case-sensitive
EndsWithXlsx(p) == p = "book.xlsx"

XlsxFormatCaseSensitive(p) == EndsWithXlsx(p)

\* __init__: self.xlsx_format = file_path.lower().endswith('.xlsx')
XlsxFormat(p) == EndsWithXlsx(PathLower(p))

\* what the file really is
Containers == {"zip", "ole", "neither"}

\* len: len(s); trusted, integrated, uid, pwd: the substring tests of
\* _calculate_complexity; keyword: _looks_like_connection_string's keyword
\* test; type: what the CONNECTION_PATTERNS search yields; sources: what the
\* regular expressions of _extract_data_sources yield
EmptyString ==
    [len |-> 0, trusted |-> FALSE, integrated |-> FALSE, uid |-> FALSE,
     pwd |-> FALSE, keyword |-> FALSE, type |-> "Unknown", sources |-> <<>>]

\* "DSN=Sales"
DsnString ==
    [len |-> 9, trusted |-> FALSE, integrated |-> FALSE, uid |-> FALSE,
     pwd |-> FALSE, keyword |-> TRUE, type |-> "ODBC", sources |-> <<"Sales">>]

\* a 300 character string: Provider=SQLOLEDB, Data Source=srv, Initial
\* Catalog=db, Trusted_Connection, User ID and Password among its parts
LongAuthString ==
    [len |-> 300, trusted |-> TRUE, integrated |-> FALSE, uid |-> TRUE,
     pwd |-> TRUE, keyword |-> TRUE, type |-> "OLEDB", sources |-> <<"db", "srv">>]

ConnectionStrings == {EmptyString, DsnString, LongAuthString}

\* len: len(text); keywords: how many of SQL_KEYWORDS occur in the upper-cased
\* text; joins: count of 'JOIN'; the others: the tests of _calculate_complexity,
\* _infer_purpose and _looks_like_sql_query
NoQuery ==
    [len |-> 0, keywords |-> 0, joins |-> 0, subquery |-> FALSE, over |-> FALSE,
     case_in |-> FALSE, group_by |-> FALSE, cte |-> FALSE, starts |-> "",
     agg |-> FALSE, where_in |-> FALSE]

\* "usp_load_data": no SQL keyword occurs in it
PlainQuery ==
    [len |-> 13, keywords |-> 0, joins |-> 0, subquery |-> FALSE, over |-> FALSE,
     case_in |-> FALSE, group_by |-> FALSE, cte |-> FALSE, starts |-> "",
     agg |-> FALSE, where_in |-> FALSE]

\* a SELECT with two joins, a subquery, a window function, CASE and GROUP BY
ComplexQuery ==
    [len |-> 400, keywords |-> 12, joins |-> 2, subquery |-> TRUE, over |-> TRUE,
     case_in |-> TRUE, group_by |-> TRUE, cte |-> FALSE, starts |-> "SELECT",
     agg |-> TRUE, where_in |-> TRUE]

EcaQueryTexts == {NoQuery, PlainQuery, ComplexQuery}

\* _looks_like_connection_string
LooksLikeConnectionString(cs) == cs.len >= 10 /\ cs.keyword

\* _looks_like_sql_query
LooksLikeSqlQuery(q) == q.len >= 10 /\ q.starts # ""

\* _determine_connection_type
DetermineConnectionType(cs) == IF cs.len = 0 THEN "Unknown" ELSE cs.type

\* _extract_data_sources
ExtractDataSources(cs) == cs.sources

----------------------------------------------------------------------------
(* ExcelConnectionAnalyzer: the connection records *)

ConnectionFields ==
    {"Name", "Type", "ConnectionString", "TargetDataSources", "QueryText",
     "WorksheetName", "ComplexityScore", "PurposeDescription"}

\* a record that also carries the Tables field of the records of
\* ConnectionAnalyzer
ConnectionWithTables(name, type, cs, tds, qt, ws) ==
    [Name |-> name, Type |-> type, ConnectionString |-> cs,
     TargetDataSources |-> tds, QueryText |-> qt, WorksheetName |-> ws,
     ComplexityScore |-> 0, PurposeDescription |-> <<>>, Tables |-> <<>>]

\* a record as every extraction step builds it: ComplexityScore 0 and an
\* empty PurposeDescription
Connection(name, type, cs, tds, qt, ws) ==
    [Name |-> name, Type |-> type, ConnectionString |-> cs,
     TargetDataSources |-> tds, QueryText |-> qt, WorksheetName |-> ws,
     ComplexityScore |-> 0, PurposeDescription |-> <<>>]

\* the connection string and the query text one XML element carries
EcaTextPairs ==
    { <<EmptyString, NoQuery>>, <<EmptyString, PlainQuery>>,
      <<EmptyString, ComplexQuery>>, <<DsnString, NoQuery>>,
      <<LongAuthString, ComplexQuery>> }

\* a connection element: its texts and the name of its last table, if any
ConnectionElements ==
    (EcaTextPairs \X {""})
    \cup ({<<EmptyString, NoQuery>>, <<LongAuthString, ComplexQuery>>} \X {"t1"})

\* _process_connections_xml, lines 232-270
ConnectionsXmlConnections ==
    { Connection("n1", DetermineConnectionType(e[1][1]), e[1][1],
                 IF e[1][1].len > 0 THEN ExtractDataSources(e[1][1]) ELSE <<>>,
                 e[1][2], e[2]) :
        e \in ConnectionElements }

\* _process_query_xml, lines 283-316: appended only with a connection string
\* or a query text
QueryXmlConnections ==
    { Connection("Query Connection", DetermineConnectionType(p[1]), p[1],
                 ExtractDataSources(p[1]), p[2], "") :
        p \in { pp \in EcaTextPairs : pp[1].len > 0 \/ pp[2].len > 0 } }

\* _process_custom_xml, lines 328-357; the name is completed with the
\* position in self.connections
CustomXmlConnections ==
    { Connection("Custom XML Connection", DetermineConnectionType(cs), cs,
                 ExtractDataSources(cs), NoQuery, "") :
        cs \in { c \in ConnectionStrings : LooksLikeConnectionString(c) } }
    \cup
    { Connection("Custom XML Query", "SQL", EmptyString, <<>>, qt, "") :
        qt \in { q \in EcaQueryTexts : LooksLikeSqlQuery(q) } }

\* _find_connection_strings_in_text, lines 539-590: every match has at least
\* one non-empty group, so target_sources is not empty
TextConnections(source) ==
    { Connection(source \o " Connection", t, cs, tds, NoQuery, "") :
        t \in {"ODBC"}, cs \in {EmptyString, LongAuthString},
        tds \in {<<"db", "srv">>} }

\* _find_sql_queries_in_text, lines 603-634
TextQueries(source) ==
    { Connection(source \o " SQL Query", "SQL", EmptyString, tds, qt, "") :
        tds \in {<<>>, <<"t">>}, qt \in {ComplexQuery} }

\* _process_power_query, lines 393-446
PowerQueryConnections ==
    { Connection("Power Query 1", tt[1], EmptyString, tt[2], qt, "") :
        tt \in {<<"Power Query", <<>>>>, <<"CSV", <<"CSV File">>>>},
        qt \in EcaQueryTexts \ {NoQuery} }

\* _extract_connections_from_sheet, lines 461-488
SheetConnections ==
    { Connection("Sheet Connection", DetermineConnectionType(cs), cs,
                 ExtractDataSources(cs), NoQuery, "Sheet1") :
        cs \in ConnectionStrings \ {EmptyString} }

\* the names built with len(self.connections) + 1
IndexedNames ==
    {"Custom XML Connection", "Custom XML Query", "Sheet Connection",
     "VBA Code Connection", "VBA Code SQL Query", "Workbook Binary Connection",
     "Workbook Binary SQL Query"}

\* self.connections.append of a batch of records, one after the other
AppendAll(conns, batch) ==
    conns \o
    [i \in 1..Len(batch) |->
        IF batch[i].Name \in IndexedNames
        THEN [batch[i] EXCEPT !.Name = @ \o " " \o ToString(Len(conns) + i)]
        ELSE batch[i]]

----------------------------------------------------------------------------
(* ExcelConnectionAnalyzer: _calculate_complexity and _infer_purpose *)

\* the point tally `score` of _calculate_complexity, lines 692-743, in
\* fiftieths of a point (len / 50 is a float)
Tally50(conn) ==
    LET cs == conn.ConnectionString
        q == conn.QueryText
        c == IF cs.len > 0
             THEN Min(cs.len, 250)
                  + (IF cs.trusted THEN 50 ELSE 0)
                  + (IF cs.integrated THEN 50 ELSE 0)
                  + (IF cs.uid THEN 100 ELSE 0)
                  + (IF cs.pwd THEN 100 ELSE 0)
             ELSE 0
        t == IF q.len > 0
             THEN 50 * ( q.keywords + 2 * q.joins
                         + (IF q.subquery THEN 5 ELSE 0)
                         + (IF q.over THEN 3 ELSE 0)
                         + (IF q.case_in THEN 3 ELSE 0)
                         + (IF q.group_by THEN 2 ELSE 0)
                         + (IF q.cte THEN 4 ELSE 0) )
             ELSE 0
    IN  c + t + 50 * Len(conn.TargetDataSources)

\* an assignment that grows with the tally and is not capped at 10
ScaleWithoutCap(score50) ==
    [raised |-> FALSE,
     value |-> IF score50 > 0 THEN 1 + score50 \div 50 ELSE 0]

\* lines 745-749: with score > 0 the name math is looked up, and the module
\* never imports it (lines 23-37): NameError before anything is assigned
ScaleScore(score50) ==
    IF score50 > 0
    THEN [raised |-> TRUE, value |-> 0]
    ELSE [raised |-> FALSE, value |-> 0]

\* _infer_purpose, lines 753-808: 'A ' + ' for '.join(purpose), as the list
\* of its parts
InferPurpose(conn) ==
    LET q == conn.QueryText
        p1 == IF conn.Type # "Unknown" THEN <<conn.Type \o " connection">> ELSE <<>>
        p2 == IF conn.TargetDataSources # <<>> THEN <<"accessing sources">> ELSE <<>>
        p3 == IF q.len > 0 /\ q.starts = "SELECT"
              THEN <<"data retrieval">>
                   \o (IF q.agg THEN <<"data aggregation">> ELSE <<>>)
                   \o (IF q.where_in THEN <<"filtered data">> ELSE <<>>)
                   \o (IF q.group_by THEN <<"grouped data">> ELSE <<>>)
              ELSE IF q.len > 0 /\ q.starts = "UPDATE" THEN <<"data update">>
              ELSE IF q.len > 0 /\ q.starts = "INSERT" THEN <<"data insertion">>
              ELSE IF q.len > 0 /\ q.starts = "DELETE" THEN <<"data deletion">>
              ELSE <<>>
        p4 == IF conn.ComplexityScore >= 7 THEN <<"complex analysis">>
              ELSE IF conn.ComplexityScore >= 4 THEN <<"moderate analysis">>
              ELSE <<>>
        p5 == IF conn.WorksheetName # "" THEN <<"used in worksheet">> ELSE <<>>
        purpose == p1 \o p2 \o p3 \o p4 \o p5
    IN  IF purpose # <<>> THEN <<"A">> \o purpose ELSE <<"Unknown purpose">>

\* the loop of analyze, lines 92-94, up to the first connection whose
\* scoring raises: [conns, scored, raised]
RECURSIVE PostProcessFrom(_, _)
PostProcessFrom(conns, i) ==
    IF i > Len(conns)
    THEN [conns |-> conns, scored |-> Len(conns), raised |-> FALSE]
    ELSE LET a == ScaleScore(Tally50(conns[i]))
         IN  IF a.raised
             THEN [conns |-> conns, scored |-> i - 1, raised |-> TRUE]
             ELSE LET c1 == [conns[i] EXCEPT !.ComplexityScore = a.value]
                      c2 == [c1 EXCEPT !.PurposeDescription = InferPurpose(c1)]
                  IN  PostProcessFrom([conns EXCEPT ![i] = c2], i + 1)

----------------------------------------------------------------------------
(* ExcelConnectionAnalyzer: analyze, _analyze_xlsx, _analyze_xls *)

NotExcelConnectionAnalyzer == <<ca_vars, macro_vars, pe_vars, ae_vars, chat_vars, xp_vars>>

CAIdle ==
    /\ ca_file = [exists |-> FALSE, suffix |-> "", readable |-> TRUE]
    /\ os_name = "posix"
    /\ ca_pc = "idle"
    /\ ca_connections = <<>>
    /\ ca_ran = <<>>
    /\ ca_logged = {}
    /\ ca_result = NoResult

ECAInit ==
    /\ eca_path \in EcaPaths
    /\ eca_container \in Containers
    /\ eca_xlsx_format = XlsxFormat(eca_path)
    /\ eca_pc = "analyze"
    /\ eca_connections = <<>>
    /\ eca_branch = "none"
    /\ eca_logged = {}
    /\ eca_scored = 0
    /\ eca_result = NoResult

EcaRoom == MaxEcaConnections - Len(eca_connections)

\* analyze raised e out of _analyze_xlsx or _analyze_xls (lines 97-99)
EcaRaise(e) ==
    /\ eca_result' = Raised(e)
    /\ eca_pc' = "done"

\* _analyze_xlsx, lines 105 and 178-180: the file is no zip package
AnalyzeXlsxBadZipFile ==
    /\ eca_pc = "analyze"
    /\ eca_xlsx_format
    /\ eca_container # "zip"
    /\ eca_branch' = "xlsx"
    /\ EcaRaise("ValueError")
    /\ UNCHANGED <<eca_path, eca_container, eca_xlsx_format, eca_connections,
                   eca_logged, eca_scored, NotExcelConnectionAnalyzer>>

\* _analyze_xlsx, lines 105-128: the package opens; xl/workbook.xml is read
\* inside its own try, which leaves self.workbook_details set either way
AnalyzeXlsxOpen ==
    /\ eca_pc = "analyze"
    /\ eca_xlsx_format
    /\ eca_container = "zip"
    /\ eca_branch' = "xlsx"
    /\ eca_pc' = "connections.xml"
    /\ UNCHANGED <<eca_path, eca_container, eca_xlsx_format, eca_connections,
                   eca_logged, eca_scored, eca_result, NotExcelConnectionAnalyzer>>

PartStepCaughtAborts(part, batch, outcome, next) ==
    /\ eca_connections' =
         IF outcome \in {"ok", "caught"} THEN AppendAll(eca_connections, batch)
         ELSE eca_connections
    /\ eca_logged' = IF outcome = "caught" THEN eca_logged \cup {part}
                     ELSE eca_logged
    /\ IF outcome \in {"decode", "caught"} THEN EcaRaise("UnicodeDecodeError")
       ELSE IF outcome = "bad_zip" THEN EcaRaise("ValueError")
       ELSE eca_pc' = next /\ eca_result' = eca_result
    /\ UNCHANGED <<eca_path, eca_container, eca_xlsx_format, eca_branch,
                   eca_scored, NotExcelConnectionAnalyzer>>

\* a part is read and processed.  outcome "ok": its records are appended;
\* "caught": the processing raised and its handler logged it, the records
\* appended before stay; "decode": reading or decoding the part raised
\* outside any handler; "bad_zip": reading raised BadZipFile outside any
\* handler but the one of line 178
PartStep(part, batch, outcome, next) ==
    /\ eca_connections' =
         IF outcome \in {"ok", "caught"} THEN AppendAll(eca_connections, batch)
         ELSE eca_connections
    /\ eca_logged' = IF outcome = "caught" THEN eca_logged \cup {part}
                     ELSE eca_logged
    /\ IF outcome = "decode" THEN EcaRaise("UnicodeDecodeError")
       ELSE IF outcome = "bad_zip" THEN EcaRaise("ValueError")
       ELSE eca_pc' = next /\ eca_result' = eca_result
    /\ UNCHANGED <<eca_path, eca_container, eca_xlsx_format, eca_branch,
                   eca_scored, NotExcelConnectionAnalyzer>>

\* lines 131-133: the read is outside any try
ProcessConnectionsXml ==
    /\ eca_pc = "connections.xml"
    /\ \E batch \in SeqsUpTo(ConnectionsXmlConnections, EcaRoom),
          outcome \in {"ok", "caught", "decode", "bad_zip"} :
         PartStep("connections.xml", batch, outcome, "queries")

\* lines 136-140: the reads are outside any try
ProcessQueryXml ==
    /\ eca_pc = "queries"
    /\ \E batch \in SeqsUpTo(QueryXmlConnections, EcaRoom),
          outcome \in {"ok", "caught", "decode", "bad_zip"} :
         PartStep("queries", batch, outcome, "customXml")

\* lines 143-149: read and processing inside a try
ProcessCustomXml ==
    /\ eca_pc = "customXml"
    /\ \E batch \in SeqsUpTo(CustomXmlConnections, EcaRoom),
          outcome \in {"ok", "caught"} :
         PartStep("customXml", batch, outcome, "vbaProject.bin")

\* lines 152-154: the read is outside any try; nothing is decoded here
ExtractConnectionsFromVba ==
    /\ eca_pc = "vbaProject.bin"
    /\ \E a \in SeqsUpTo(TextConnections("VBA Code"), EcaRoom),
          outcome \in {"ok", "caught", "bad_zip"} :
         \E b \in SeqsUpTo(TextQueries("VBA Code"), EcaRoom - Len(a)) :
            PartStep("vbaProject.bin", a \o b, outcome, "power_query")

\* lines 157-164
ProcessPowerQuery ==
    /\ eca_pc = "power_query"
    /\ \E batch \in SeqsUpTo(PowerQueryConnections, Min(EcaRoom, 1)),
          outcome \in {"ok", "caught"} :
         PartStep("power_query", batch, outcome, "worksheets")

\* lines 167-176
ExtractConnectionsFromSheet ==
    /\ eca_pc = "worksheets"
    /\ \E batch \in SeqsUpTo(SheetConnections, EcaRoom),
          outcome \in {"ok", "caught"} :
         PartStep("worksheets", batch, outcome, "post_process")

\* _analyze_xls, lines 185-187 and 219-221: the file is no OLE file
AnalyzeXlsNotOle ==
    /\ eca_pc = "analyze"
    /\ ~eca_xlsx_format
    /\ eca_container # "ole"
    /\ eca_branch' = "xls"
    /\ EcaRaise("ValueError")
    /\ UNCHANGED <<eca_path, eca_container, eca_xlsx_format, eca_connections,
                   eca_logged, eca_scored, NotExcelConnectionAnalyzer>>

\* _analyze_xls, lines 190-217: every stream is handled inside a try
AnalyzeXlsStreams ==
    /\ eca_pc = "analyze"
    /\ ~eca_xlsx_format
    /\ eca_container = "ole"
    /\ eca_branch' = "xls"
    /\ \E a \in SeqsUpTo(TextConnections("Workbook Binary"), EcaRoom),
          failed \in BOOLEAN :
         \E b \in SeqsUpTo(TextQueries("Workbook Binary"), EcaRoom - Len(a)) :
            /\ eca_connections' = AppendAll(eca_connections, a \o b)
            /\ eca_logged' = IF failed THEN eca_logged \cup {"streams"}
                             ELSE eca_logged
    /\ eca_pc' = "post_process"
    /\ UNCHANGED <<eca_path, eca_container, eca_xlsx_format, eca_scored,
                   eca_result, NotExcelConnectionAnalyzer>>

\* analyze, lines 91-99: the loop over self.connections, then the return,
\* or the exception of _calculate_complexity logged and raised again
PostProcess ==
    /\ eca_pc = "post_process"
    /\ LET r == PostProcessFrom(eca_connections, 1)
       IN  /\ eca_connections' = r.conns
           /\ eca_scored' = r.scored
           /\ eca_result' = IF r.raised THEN Raised("NameError")
                            ELSE Returned(r.conns)
    /\ eca_pc' = "done"
    /\ UNCHANGED <<eca_path, eca_container, eca_xlsx_format, eca_branch,
                   eca_logged, NotExcelConnectionAnalyzer>>

ECANext ==
    \/ AnalyzeXlsxBadZipFile
    \/ AnalyzeXlsxOpen
    \/ ProcessConnectionsXml
    \/ ProcessQueryXml
    \/ ProcessCustomXml
    \/ ExtractConnectionsFromVba
    \/ ProcessPowerQuery
    \/ ExtractConnectionsFromSheet
    \/ AnalyzeXlsNotOle
    \/ AnalyzeXlsStreams
    \/ PostProcess

InitECA == ECAInit /\ CAIdle /\ MacroIdle /\ ProcessIdle /\ AnalysisIdle /\ ChatIdle /\ ProceduresIdle

SpecECA == InitECA /\ [][ECANext]_vars

----------------------------------------------------------------------------
(* ExcelMacroAnalyzer and its command line (excel-macro-analyzer.py).      *)
(* A file is its position among the files at the path; a procedure record  *)
(* is the file it was extracted from and its position in that file.        *)

NotExcelMacroAnalyzer == <<ca_vars, eca_vars, pe_vars, ae_vars, chat_vars, xp_vars>>

m_env == <<m_args, m_files, m_sub>>

FileSuffixes == {".xls", ".XLSB", ".xlsx", ".txt"}
SubFileSuffixes == {".xlsm", ".txt"}

\* str.lower() of a suffix
SuffixLower(s) == IF s = ".XLSB" THEN ".xlsb" ELSE s

\* directory.glob('*.xls*'), line 453, on the file system Excel runs on,
\* where names match whatever their case
GlobMatches(s) == SuffixLower(s) \in {".xls", ".xlsm", ".xlsb", ".xlsx"}

\* line 459, and line 85 for the single suffix of a file name
IsMacroSuffix(s) == SuffixLower(s) \in {".xls", ".xlsm", ".xlsb"}

\* the records _extract_procedures appends for file f, lines 139-201
Procs(f, n) == [i \in 1..n |-> [File |-> f, Idx |-> i]]

\* the workbook of an extract_macros call: the path the call took, how
\* often wb.Close(False) was called, and whether a call closed it
Workbook(path, close_calls, closed) ==
    [path |-> path, close_calls |-> close_calls, closed |-> closed]

ExtractOutcomes ==
    {"ok", "open_failed", "vba_denied", "component_error", "error",
     "close_retried", "close_failed"}

\* extract_macros whose outer handler does not close the workbook
ExtractMacrosHandlerKeepsOpen(suffix, outcome, procs) ==
    IF ~IsMacroSuffix(suffix) \/ outcome = "open_failed"
    THEN [macro_info |-> <<>>, wb |-> NoWorkbook, raised |-> FALSE]
    ELSE IF outcome = "vba_denied"
    THEN [macro_info |-> <<>>, wb |-> Workbook(outcome, 1, TRUE),
          raised |-> FALSE]
    ELSE IF outcome \in {"close_retried", "close_failed"}
    THEN [macro_info |-> procs, wb |-> Workbook(outcome, 1, FALSE),
          raised |-> FALSE]
    ELSE IF outcome = "error"
    THEN [macro_info |-> procs, wb |-> Workbook(outcome, 0, FALSE),
          raised |-> FALSE]
    ELSE [macro_info |-> procs, wb |-> Workbook(outcome, 1, TRUE),
          raised |-> FALSE]

\* extract_macros, lines 65-127, for a file that exists; macro_info is
\* reset first (line 74).
\*   "open_failed": Workbooks.Open raises, caught at line 124 with no wb;
\*   "vba_denied": wb.VBProject raises, the workbook is closed (lines 92-98);
\*   "ok": the components are read, the workbook is closed (line 122);
\*   "component_error": one component raises, caught at line 118, the
\*     others are read and the workbook is closed (line 122);
\*   "error": something else raises after the workbook was opened, the
\*     handler closes it (lines 124-127);
\*   "close_retried": wb.Close raises at line 122, the handler's call closes;
\*   "close_failed": wb.Close raises at line 122 and again at line 127,
\*     which lets the exception out of extract_macros
ExtractMacros(suffix, outcome, procs) ==
    IF ~IsMacroSuffix(suffix) \/ outcome = "open_failed"
    THEN [macro_info |-> <<>>, wb |-> NoWorkbook, raised |-> FALSE]
    ELSE IF outcome = "vba_denied"
    THEN [macro_info |-> <<>>, wb |-> Workbook(outcome, 1, TRUE),
          raised |-> FALSE]
    ELSE IF outcome = "close_retried"
    THEN [macro_info |-> procs, wb |-> Workbook(outcome, 2, TRUE),
          raised |-> FALSE]
    ELSE IF outcome = "close_failed"
    THEN [macro_info |-> procs, wb |-> Workbook(outcome, 2, FALSE),
          raised |-> TRUE]
    ELSE [macro_info |-> procs, wb |-> Workbook(outcome, 1, TRUE),
          raised |-> FALSE]

\* all_macro_info = self.macro_info
ExtendReplaces(all, info) == info

\* all_macro_info.extend(self.macro_info), line 462
Extend(all, info) == all \o info

MacroInit ==
    /\ m_args \in [kind : {"file", "dir", "missing"}, recursive : BOOLEAN]
    /\ m_files \in SeqsUpTo(FileSuffixes, MaxFiles)
    /\ m_sub \in SeqsUpTo(SubFileSuffixes, MaxSubFiles)
    /\ m_args.kind = "file" => Len(m_files) = 1 /\ m_sub = <<>>
    /\ m_args.kind = "missing" => m_files = <<>> /\ m_sub = <<>>
    /\ m_pc = "main"
    /\ excel = "none"
    /\ macro_info = <<>>
    /\ all_macro_info = <<>>
    /\ m_todo = <<>>
    /\ m_extracted = <<>>
    /\ m_wb = NoWorkbook
    /\ m_report = NoReport
    /\ m_pending = "none"
    /\ m_result = "none"

\* main, lines 493-494
MainPathNotFound ==
    /\ m_pc = "main"
    /\ m_args.kind = "missing"
    /\ m_pc' = "done"
    /\ m_result' = "returned"
    /\ UNCHANGED <<m_env, excel, macro_info, all_macro_info, m_todo,
                   m_extracted, m_wb, m_report, m_pending,
                   NotExcelMacroAnalyzer>>

\* initialize_excel, lines 43-53: "dispatch_failed" leaves self.excel None,
\* "setup_failed" raises after self.excel is bound; both end in sys.exit(1),
\* which the finally of the caller sees
InitializeExcel(next) ==
    \E outcome \in {"ok", "dispatch_failed", "setup_failed"} :
        /\ excel' = IF outcome = "dispatch_failed" THEN "none" ELSE "running"
        /\ m_pc' = IF outcome = "ok" THEN next ELSE "close_excel"
        /\ m_pending' = IF outcome = "ok" THEN "none" ELSE "SystemExit"

\* main, lines 487-489, and analyze_file, line 431
MacroAnalyzeFile ==
    /\ m_pc = "main"
    /\ m_args.kind = "file"
    /\ InitializeExcel("extract_macros")
    /\ UNCHANGED <<m_env, macro_info, all_macro_info, m_todo, m_extracted,
                   m_wb, m_report, m_result, NotExcelMacroAnalyzer>>

\* main, lines 490-492, and analyze_directory, line 447: args.recursive is
\* not read
MacroAnalyzeDirectory ==
    /\ m_pc = "main"
    /\ m_args.kind = "dir"
    /\ InitializeExcel("glob")
    /\ UNCHANGED <<m_env, macro_info, all_macro_info, m_todo, m_extracted,
                   m_wb, m_report, m_result, NotExcelMacroAnalyzer>>

\* analyze_file, line 432
ExtractMacrosOfFile ==
    /\ m_pc = "extract_macros"
    /\ \E outcome \in ExtractOutcomes, n \in 0..MaxProcs :
         LET r == ExtractMacros(m_files[1], outcome, Procs(1, n))
         IN  /\ macro_info' = r.macro_info
             /\ m_wb' = r.wb
             /\ m_extracted' =
                  Append(m_extracted, [file |-> 1, procs |-> r.macro_info])
             /\ m_pc' = IF r.raised THEN "close_excel" ELSE "report"
             /\ m_pending' = IF r.raised THEN "Exception" ELSE m_pending
    /\ UNCHANGED <<m_env, excel, all_macro_info, m_todo, m_report, m_result,
                   NotExcelMacroAnalyzer>>

\* analyze_directory, lines 449-456: only the directory itself is listed
GlobDirectory ==
    /\ m_pc = "glob"
    /\ all_macro_info' = <<>>
    /\ LET excel_files ==
             SelectSeq([i \in 1..Len(m_files) |-> i],
                       LAMBDA i : GlobMatches(m_files[i]))
       IN  /\ m_todo' = excel_files
           /\ m_pc' = IF excel_files = <<>> THEN "close_excel" ELSE "loop"
    /\ UNCHANGED <<m_env, excel, macro_info, m_extracted, m_wb, m_report,
                   m_pending, m_result, NotExcelMacroAnalyzer>>

\* analyze_directory, lines 458-459: the suffix is none of .xls, .xlsm, .xlsb
LoopSkipFile ==
    /\ m_pc = "loop"
    /\ m_todo # <<>>
    /\ ~IsMacroSuffix(m_files[Head(m_todo)])
    /\ m_todo' = Tail(m_todo)
    /\ UNCHANGED <<m_env, m_pc, excel, macro_info, all_macro_info,
                   m_extracted, m_wb, m_report, m_pending, m_result,
                   NotExcelMacroAnalyzer>>

\* analyze_directory, lines 458-464: extract_macros, extend, reset
LoopExtractFile ==
    /\ m_pc = "loop"
    /\ m_todo # <<>>
    /\ IsMacroSuffix(m_files[Head(m_todo)])
    /\ \E outcome \in ExtractOutcomes, n \in 0..MaxProcs :
         LET f == Head(m_todo)
             r == ExtractMacros(m_files[f], outcome, Procs(f, n))
         IN  /\ m_wb' = r.wb
             /\ m_extracted' =
                  Append(m_extracted, [file |-> f, procs |-> r.macro_info])
             /\ IF r.raised
                THEN /\ macro_info' = r.macro_info
                     /\ all_macro_info' = all_macro_info
                     /\ m_pc' = "close_excel"
                     /\ m_pending' = "Exception"
                ELSE /\ macro_info' = <<>>
                     /\ all_macro_info' = Extend(all_macro_info, r.macro_info)
                     /\ m_pc' = m_pc
                     /\ m_pending' = m_pending
    /\ m_todo' = Tail(m_todo)
    /\ UNCHANGED <<m_env, excel, m_report, m_result, NotExcelMacroAnalyzer>>

\* generate_report, lines 353-419, handed info: it writes the report or
\* raises
GenerateReport(info) ==
    /\ m_report' = [made |-> TRUE, macro_info |-> info]
    /\ \E written \in BOOLEAN :
         m_pending' = IF written THEN m_pending ELSE "Exception"
    /\ m_pc' = "close_excel"

\* analyze_file, line 433
GenerateReportOfFile ==
    /\ m_pc = "report"
    /\ GenerateReport(macro_info)
    /\ UNCHANGED <<m_env, excel, macro_info, all_macro_info, m_todo,
                   m_extracted, m_wb, m_result, NotExcelMacroAnalyzer>>

\* analyze_directory, lines 467-468
StoreAndGenerateReport ==
    /\ m_pc = "loop"
    /\ m_todo = <<>>
    /\ macro_info' = all_macro_info
    /\ GenerateReport(all_macro_info)
    /\ UNCHANGED <<m_env, excel, all_macro_info, m_todo, m_extracted, m_wb,
                   m_result, NotExcelMacroAnalyzer>>

\* a return out of analyze_file or analyze_directory with no close_excel
ReturnWithoutCloseExcel ==
    /\ m_pc = "close_excel"
    /\ m_pc' = "done"
    /\ m_result' = IF m_pending = "none" THEN "returned"
                   ELSE IF m_pending = "SystemExit" THEN "exit"
                   ELSE "raised"
    /\ UNCHANGED <<m_env, excel, macro_info, all_macro_info, m_todo,
                   m_extracted, m_wb, m_report, m_pending,
                   NotExcelMacroAnalyzer>>

\* the finally of analyze_file and analyze_directory: close_excel, lines
\* 55-63, then the return or the pending exception
CloseExcel ==
    /\ m_pc = "close_excel"
    /\ IF excel = "running"
       THEN excel' \in {"quit", "quit_failed"}
       ELSE excel' = excel
    /\ m_pc' = "done"
    /\ m_result' = IF m_pending = "none" THEN "returned"
                   ELSE IF m_pending = "SystemExit" THEN "exit"
                   ELSE "raised"
    /\ UNCHANGED <<m_env, macro_info, all_macro_info, m_todo, m_extracted,
                   m_wb, m_report, m_pending, NotExcelMacroAnalyzer>>

MacroNext ==
    \/ MainPathNotFound
    \/ MacroAnalyzeFile
    \/ MacroAnalyzeDirectory
    \/ ExtractMacrosOfFile
    \/ GlobDirectory
    \/ LoopSkipFile
    \/ LoopExtractFile
    \/ GenerateReportOfFile
    \/ StoreAndGenerateReport
    \/ CloseExcel

InitMacro == MacroInit /\ CAIdle /\ ECAIdle /\ ProcessIdle /\ AnalysisIdle /\ ChatIdle /\ ProceduresIdle

SpecMacro == InitMacro /\ [][MacroNext]_vars

----------------------------------------------------------------------------
(* process_euda_file (main-file.py) with VectorDatabase (database-file.py), *)
(* BedrockEmbedder (embedders-file.py) and ExcelAnalyzer                   *)
(* (excel-analyzer-file.py)                                                *)

NotProcessEudaFile == <<ca_vars, eca_vars, macro_vars, ae_vars, chat_vars, xp_vars>>

ProcessInit ==
    /\ pe_pc = "connect"
    /\ pe_conn = "none"
    /\ pe_loaded = FALSE
    /\ pe_analysed = FALSE
    /\ pe_stored = FALSE
    /\ pe_chunks = 0
    /\ pe_log = <<>>
    /\ pe_handler_failed = FALSE
    /\ pe_closes = NoCloses
    /\ pe_late_write = FALSE
    /\ pe_ret = "none"
    /\ pe_result = "none"

\* a return that leaves the function at once, past the finally clause
ReturnAtOnce(v) ==
    /\ pe_ret' = v
    /\ pe_pc' = "done"
    /\ pe_result' = v

\* a return statement inside the try of process_euda_file, or the return
\* False of its except clause (lines 64-66): the finally clause runs next
Return(v) ==
    /\ pe_ret' = v
    /\ pe_pc' = "finally"
    /\ pe_result' = pe_result

\* store_embedding with no handler of its own: every failure is raised
StoreFailureUncaught(outcome) == outcome # "ok"

\* VectorDatabase.store_euda_metadata and store_embedding, lines 86-89 and
\* 101-103: a failed statement is rolled back and reported; the call raises
\* only when the rollback in the handler raises too
StoreRaises(outcome) == outcome = "rollback_failed"

\* what a statement does on the connection
StoreOutcomes == {"ok", "failed", "rollback_failed"}

\* a statement is sent through db.cursor
Write == pe_late_write' = (pe_late_write \/ pe_closes.db > 0)

\* db.connect(), line 19, VectorDatabase.connect lines 10-31: a failure is
\* reported and leaves self.conn None
ConnectDatabase ==
    /\ pe_pc = "connect"
    /\ \E connected \in BOOLEAN :
         pe_conn' = IF connected THEN "open" ELSE "none"
    /\ pe_pc' = "load_file"
    /\ UNCHANGED <<pe_loaded, pe_analysed, pe_stored, pe_chunks, pe_log,
                   pe_handler_failed, pe_closes, pe_late_write, pe_ret,
                   pe_result, NotProcessEudaFile>>

\* lines 22-24, ExcelAnalyzer.load_file lines 15-24
LoadFile ==
    /\ pe_pc = "load_file"
    /\ \E loaded \in BOOLEAN :
         /\ pe_loaded' = loaded
         /\ IF loaded
            THEN pe_pc' = "analyze_file" /\ UNCHANGED <<pe_ret, pe_result>>
            ELSE Return("False")
    /\ UNCHANGED <<pe_conn, pe_analysed, pe_stored, pe_chunks, pe_log,
                   pe_handler_failed, pe_closes, pe_late_write,
                   NotProcessEudaFile>>

\* lines 27-30, ExcelAnalyzer.analyze_file lines 26-58
AnalyzeMetadata ==
    /\ pe_pc = "analyze_file"
    /\ \E analysed \in BOOLEAN :
         /\ pe_analysed' = analysed
         /\ IF analysed
            THEN pe_pc' = "store_metadata" /\ UNCHANGED <<pe_ret, pe_result>>
            ELSE Return("False")
    /\ UNCHANGED <<pe_conn, pe_loaded, pe_stored, pe_chunks, pe_log,
                   pe_handler_failed, pe_closes, pe_late_write,
                   NotProcessEudaFile>>

\* lines 37-40, store_euda_metadata lines 72-89.  Without a connection
\* self.cursor is None: the statement raises and so does the rollback
StoreEudaMetadata ==
    /\ pe_pc = "store_metadata"
    /\ \E outcome \in StoreOutcomes :
         /\ pe_conn = "none" => outcome = "rollback_failed"
         /\ pe_stored' = (outcome = "ok")
         /\ pe_handler_failed' = (pe_handler_failed \/ outcome = "rollback_failed")
         /\ IF outcome = "ok"
            THEN pe_pc' = "extract_text" /\ UNCHANGED <<pe_ret, pe_result>>
            ELSE Return("False")
    /\ Write
    /\ UNCHANGED <<pe_conn, pe_loaded, pe_analysed, pe_chunks, pe_log,
                   pe_closes, NotProcessEudaFile>>

\* line 43, extract_text_for_embedding lines 283-349: a list of chunks,
\* empty when the extraction fails
ExtractTextForEmbedding ==
    /\ pe_pc = "extract_text"
    /\ pe_chunks' \in 0..MaxChunks
    /\ pe_pc' = "loop"
    /\ UNCHANGED <<pe_conn, pe_loaded, pe_analysed, pe_stored, pe_log,
                   pe_handler_failed, pe_closes, pe_late_write, pe_ret,
                   pe_result, NotProcessEudaFile>>

\* lines 46-59 for one chunk whose embedding is empty: get_text_embedding
\* returns [] when the request fails (embedders-file.py lines 40-42)
ChunkWithoutEmbedding ==
    /\ pe_pc = "loop"
    /\ pe_chunks > 0
    /\ pe_chunks' = pe_chunks - 1
    /\ pe_log' = Append(pe_log, "no_embedding")
    /\ UNCHANGED <<pe_pc, pe_conn, pe_loaded, pe_analysed, pe_stored,
                   pe_handler_failed, pe_closes, pe_late_write, pe_ret,
                   pe_result, NotProcessEudaFile>>

\* lines 46-57 for one chunk with an embedding: db.store_embedding, lines
\* 91-103
ChunkStoreEmbedding ==
    /\ pe_pc = "loop"
    /\ pe_chunks > 0
    /\ \E outcome \in StoreOutcomes :
         /\ pe_log' = Append(pe_log, outcome)
         /\ pe_handler_failed' = (pe_handler_failed \/ outcome = "rollback_failed")
         /\ IF StoreRaises(outcome)
            THEN Return("False") /\ pe_chunks' = pe_chunks
            ELSE /\ pe_chunks' = pe_chunks - 1
                 /\ UNCHANGED <<pe_pc, pe_ret, pe_result>>
    /\ Write
    /\ UNCHANGED <<pe_conn, pe_loaded, pe_analysed, pe_stored, pe_closes,
                   NotProcessEudaFile>>

\* lines 61-62
ReturnSuccess ==
    /\ pe_pc = "loop"
    /\ pe_chunks = 0
    /\ Return("True")
    /\ UNCHANGED <<pe_conn, pe_loaded, pe_analysed, pe_stored, pe_chunks,
                   pe_log, pe_handler_failed, pe_closes, pe_late_write,
                   NotProcessEudaFile>>

\* lines 68-71: analyzer.close() (excel-analyzer-file.py lines 351-355) and
\* db.close() (database-file.py lines 105-110), then the pending return
Finally ==
    /\ pe_pc = "finally"
    /\ pe_closes' = [analyzer |-> pe_closes.analyzer + 1,
                     db |-> pe_closes.db + 1]
    /\ pe_conn' = IF pe_conn = "open" THEN "closed" ELSE pe_conn
    /\ pe_pc' = "done"
    /\ pe_result' = pe_ret
    /\ UNCHANGED <<pe_loaded, pe_analysed, pe_stored, pe_chunks, pe_log,
                   pe_handler_failed, pe_late_write, pe_ret,
                   NotProcessEudaFile>>

ProcessNext ==
    \/ ConnectDatabase
    \/ LoadFile
    \/ AnalyzeMetadata
    \/ StoreEudaMetadata
    \/ ExtractTextForEmbedding
    \/ ChunkWithoutEmbedding
    \/ ChunkStoreEmbedding
    \/ ReturnSuccess
    \/ Finally

InitProcess == ProcessInit /\ CAIdle /\ ECAIdle /\ MacroIdle /\ AnalysisIdle /\ ChatIdle /\ ProceduresIdle

SpecProcess == InitProcess /\ [][ProcessNext]_vars

----------------------------------------------------------------------------
(* analyze_excel_euda and generate_report                                   *)
(* (src/euda-analyzer-chatbot.py, src/server-euda-analyzer.py)              *)
(*                                                                          *)
(* A sheet is represented by the shape of its data frame and the number of  *)
(* its cells the pattern ^\s*= matches. The score is computed in exact      *)
(* arithmetic over the common denominator of its terms; the code computes   *)
(* it in floating point, which can move a value that is exactly half way    *)
(* between two integers to either of them and nothing else.                 *)

NotAnalyzeExcelEuda == <<ca_vars, eca_vars, macro_vars, pe_vars, chat_vars, xp_vars>>

AnalyzerVariants == {"chatbot", "server"}

\* df.shape of the sheets the model draws: empty, one cell, the smallest
\* sheet that counts as a data table, a sheet of 400 cells
SheetShapes == {<<0, 0>>, <<1, 1>>, <<6, 4>>, <<40, 10>>}

\* the matches of ^\s*= in the object columns of a sheet: none, or every
\* cell
Sheets ==
    { sh \in [rows : {0, 1, 6, 40}, cols : {0, 1, 4, 10}, formulas : {0, 1, 24, 400}] :
        /\ <<sh.rows, sh.cols>> \in SheetShapes
        /\ sh.formulas \in {0, sh.rows * sh.cols} }

\* round(n / d) of Python 3: to the nearest integer, halves to the even one
Round(n, d) ==
    LET q == n \div d
        r == n % d
    IN  IF 2 * r < d THEN q
        ELSE IF 2 * r > d THEN q + 1
        ELSE IF q % 2 = 0 THEN q ELSE q + 1

\* min(10, sheet_count) + min(10, len(data_tables))
ComplexityBase(sheets, tables) == Min(10, sheets) + Min(10, tables)

FormulaComplexityUncapped(formulas) == formulas

\* min(30, formulas_count / 10), in tenths
FormulaComplexity(formulas) == Min(300, formulas)

\* round(complexity_base + formula_complexity + formula_ratio * 50), where
\* formula_ratio is formula_cells / total_cells, or 0 without cells
ComplexityScore(sheets, tables, formulas, fcells, cells) ==
    IF cells > 0
    THEN Round(10 * cells * ComplexityBase(sheets, tables)
                 + cells * FormulaComplexity(formulas)
                 + 500 * fcells,
               10 * cells)
    ELSE Round(10 * ComplexityBase(sheets, tables) + FormulaComplexity(formulas), 10)

AnalysisInit ==
    /\ ae_variant \in AnalyzerVariants
    /\ ae_todo \in 0..MaxSheets
    /\ sheet_count = ae_todo
    /\ ae_pc = "sheets"
    /\ total_cells = 0
    /\ formula_cells = 0
    /\ formulas_count = 0
    /\ data_tables = 0
    /\ complexity_score = 0
    /\ ae_report = NoSummary

\* one turn of the loop over sheet_names that completes
AnalyzeSheet ==
    /\ ae_pc = "sheets"
    /\ ae_todo > 0
    /\ \E sh \in Sheets :
         /\ total_cells' = total_cells + sh.rows * sh.cols
         /\ data_tables' = IF sh.rows > 5 /\ sh.cols > 3 THEN data_tables + 1 ELSE data_tables
         /\ formulas_count' = formulas_count + sh.formulas
         /\ formula_cells' = formula_cells + sh.formulas
    /\ ae_todo' = ae_todo - 1
    /\ UNCHANGED <<ae_variant, ae_pc, sheet_count, complexity_score, ae_report>>
    /\ UNCHANGED NotAnalyzeExcelEuda

\* one turn of the loop in which pandas raises: in read_excel, or in the
\* scan of the columns after the cells of the sheet were counted. The server
\* script records the error and goes on; the chatbot script leaves the
\* function with {"error": ...}.
SheetFails ==
    /\ ae_pc = "sheets"
    /\ ae_todo > 0
    /\ \E sh \in Sheets, counted \in BOOLEAN :
         total_cells' = IF counted THEN total_cells + sh.rows * sh.cols ELSE total_cells
    /\ IF ae_variant = "server"
       THEN /\ ae_todo' = ae_todo - 1
            /\ ae_pc' = ae_pc
       ELSE /\ ae_todo' = ae_todo
            /\ ae_pc' = "error"
    /\ UNCHANGED <<ae_variant, sheet_count, formula_cells, formulas_count, data_tables,
                   complexity_score, ae_report>>
    /\ UNCHANGED NotAnalyzeExcelEuda

CalculateComplexity ==
    /\ ae_pc = "sheets"
    /\ ae_todo = 0
    /\ complexity_score' =
         ComplexityScore(sheet_count, data_tables, formulas_count, formula_cells, total_cells)
    /\ ae_pc' = "scored"
    /\ UNCHANGED <<ae_variant, ae_todo, sheet_count, total_cells, formula_cells,
                   formulas_count, data_tables, ae_report>>
    /\ UNCHANGED NotAnalyzeExcelEuda

\* generate_report: the error message, or the line
\* "Complexity score: {complexity_score}/100"
GenerateSummary ==
    /\ ae_pc \in {"scored", "error"}
    /\ ae_report' = IF ae_pc = "error"
                    THEN [written |-> TRUE, error |-> TRUE, score |-> 0, out_of |-> 0]
                    ELSE [written |-> TRUE, error |-> FALSE, score |-> complexity_score,
                          out_of |-> 100]
    /\ ae_pc' = "done"
    /\ UNCHANGED <<ae_variant, ae_todo, sheet_count, total_cells, formula_cells,
                   formulas_count, data_tables, complexity_score>>
    /\ UNCHANGED NotAnalyzeExcelEuda

AnalysisNext ==
    \/ AnalyzeSheet
    \/ SheetFails
    \/ CalculateComplexity
    \/ GenerateSummary

InitAnalysis == AnalysisInit /\ CAIdle /\ ECAIdle /\ MacroIdle /\ ProcessIdle /\ ChatIdle /\ ProceduresIdle

SpecAnalysis == InitAnalysis /\ [][AnalysisNext]_vars

----------------------------------------------------------------------------
(* The chat of main (src/local-path-euda-analyzer.py)                       *)
(*                                                                          *)
(* An input is represented by the outcomes of the tests main makes of it.   *)

NotChat == <<ca_vars, eca_vars, macro_vars, pe_vars, ae_vars, xp_vars>>

\* excel_ext: os.path.splitext(user_input.strip())[1].lower() is one of
\*            .xlsx, .xls, .xlsm;  analyze, xls, clear, reset: the word is in
\*            user_input.lower();  help: "help" or "how" is;  euda: "euda"
\*            and one of "what", "mean" are.
\* An input with one of the three extensions contains ".xls".
UserInputs ==
    { i \in [excel_ext : BOOLEAN, analyze : BOOLEAN, xls : BOOLEAN, clear : BOOLEAN,
             reset : BOOLEAN, help : BOOLEAN, euda : BOOLEAN] :
        i.excel_ext => i.xls }

Cleared == Message("assistant", "Chat history cleared...")

ChatBranchHelpFirst(i) ==
    IF i.excel_ext \/ (i.analyze /\ i.xls) THEN "analyze"
    ELSE IF i.help THEN "help"
    ELSE IF i.clear \/ i.reset THEN "clear"
    ELSE IF i.euda THEN "euda"
    ELSE "other"

\* the if / elif chain of main
ChatBranch(i) ==
    IF i.excel_ext \/ (i.analyze /\ i.xls) THEN "analyze"
    ELSE IF i.clear \/ i.reset THEN "clear"
    ELSE IF i.help THEN "help"
    ELSE IF i.euda THEN "euda"
    ELSE "other"

ChatInit ==
    /\ messages = <<Greeting>>
    /\ user_input = PlainInput
    /\ chat_before = <<>>
    /\ chat_handled = FALSE

\* one run of main with an input: the user message is appended, then the
\* branch appends its reply
Reply(i, content) ==
    /\ Len(messages) + 2 <= MaxMessages
    /\ messages' = messages \o <<Message("user", "user_input"), Message("assistant", content)>>
    /\ user_input' = i
    /\ chat_before' = messages
    /\ chat_handled' = TRUE
    /\ UNCHANGED NotChat

\* the file is analysed and reported on, or the analysis raises
AnalyzePath ==
    \E i \in UserInputs, content \in {"report", "Error processing file"} :
        /\ ChatBranch(i) = "analyze"
        /\ Reply(i, content)

ClearChat ==
    \E i \in UserInputs :
        /\ ChatBranch(i) = "clear"
        /\ messages' = <<Cleared>>
        /\ user_input' = i
        /\ chat_before' = messages
        /\ chat_handled' = TRUE
        /\ UNCHANGED NotChat

Help ==
    \E i \in UserInputs :
        /\ ChatBranch(i) = "help"
        /\ Reply(i, "How to use the EUDA Analyzer")

ExplainEuda ==
    \E i \in UserInputs :
        /\ ChatBranch(i) = "euda"
        /\ Reply(i, "EUDA stands for...")

OtherInput ==
    \E i \in UserInputs :
        /\ ChatBranch(i) = "other"
        /\ Reply(i, "I'm here to help...")

ChatNext ==
    \/ AnalyzePath
    \/ ClearChat
    \/ Help
    \/ ExplainEuda
    \/ OtherInput

InitChat == ChatInit /\ CAIdle /\ ECAIdle /\ MacroIdle /\ ProcessIdle /\ AnalysisIdle /\ ProceduresIdle

SpecChat == InitChat /\ [][ChatNext]_vars

----------------------------------------------------------------------------
(* ExcelMacroAnalyzer._extract_procedures (src/excel-macro-analyzer.py)     *)
(*                                                                          *)
(* A line of the module is represented by the patterns that match it; the   *)
(* index i of the code counts from 0, line_index is i + 1.                  *)

NotExtractProcedures == <<ca_vars, eca_vars, macro_vars, pe_vars, ae_vars, chat_vars>>

\* "proc": proc_pattern matches the line;  "end": end_pattern does;
\* "both": both do, as in  Sub A(): End Sub  or  End Sub ' done;
\* "other": neither does
LineKinds == {"proc", "end", "both", "other"}

MatchesProc(line) == line \in {"proc", "both"}

MatchesEnd(line) == line \in {"end", "both"}

\* the record appended at lines 190-199: Code and Line Count; start_line is
\* the local of line 170
ProcedureRecord(code) ==
    [start_line |-> code[1], Code |-> code, LineCount |-> Len(code)]

Examine(k) == [examined EXCEPT ![k] = @ + 1]

\* code.split('\n') has at least one element
ProceduresInit ==
    /\ lines \in UNION {[1..n -> LineKinds] : n \in 1..MaxLines}
    /\ line_index = 1
    /\ xp_pc = "outer"
    /\ proc_code = <<>>
    /\ xp_macro_info = <<>>
    /\ examined = [k \in 1..Len(lines) |-> 0]

\* lines 156-160 and 201: the line starts no procedure
SkipLine ==
    /\ xp_pc = "outer"
    /\ line_index <= Len(lines)
    /\ ~MatchesProc(lines[line_index])
    /\ examined' = Examine(line_index)
    /\ line_index' = line_index + 1
    /\ UNCHANGED <<lines, xp_pc, proc_code, xp_macro_info>>
    /\ UNCHANGED NotExtractProcedures

\* lines 156-172: the line starts a procedure
StartProcedure ==
    /\ xp_pc = "outer"
    /\ line_index <= Len(lines)
    /\ MatchesProc(lines[line_index])
    /\ examined' = Examine(line_index)
    /\ proc_code' = <<line_index>>
    /\ line_index' = line_index + 1
    /\ xp_pc' = "inner"
    /\ UNCHANGED <<lines, xp_macro_info>>
    /\ UNCHANGED NotExtractProcedures

\* lines 175-177: the line does not end the procedure
AppendLine ==
    /\ xp_pc = "inner"
    /\ line_index <= Len(lines)
    /\ ~MatchesEnd(lines[line_index])
    /\ examined' = Examine(line_index)
    /\ proc_code' = Append(proc_code, line_index)
    /\ line_index' = line_index + 1
    /\ UNCHANGED <<lines, xp_pc, xp_macro_info>>
    /\ UNCHANGED NotExtractProcedures

EndProcedureWithoutStep ==
    /\ xp_pc = "inner"
    /\ IF line_index <= Len(lines)
       THEN /\ MatchesEnd(lines[line_index])
            /\ examined' = Examine(line_index)
            /\ xp_macro_info' = Append(xp_macro_info,
                                       ProcedureRecord(Append(proc_code, line_index)))
       ELSE /\ examined' = examined
            /\ xp_macro_info' = Append(xp_macro_info, ProcedureRecord(proc_code))
    /\ proc_code' = <<>>
    /\ line_index' = line_index
    /\ xp_pc' = "outer"
    /\ UNCHANGED lines
    /\ UNCHANGED NotExtractProcedures

\* lines 175-201: the inner loop ends at a line end_pattern matches, which
\* is appended, or at the end of the module; the record is appended and i
\* moves on
EndProcedure ==
    /\ xp_pc = "inner"
    /\ IF line_index <= Len(lines)
       THEN /\ MatchesEnd(lines[line_index])
            /\ examined' = Examine(line_index)
            /\ xp_macro_info' = Append(xp_macro_info,
                                       ProcedureRecord(Append(proc_code, line_index)))
       ELSE /\ examined' = examined
            /\ xp_macro_info' = Append(xp_macro_info, ProcedureRecord(proc_code))
    /\ proc_code' = <<>>
    /\ line_index' = line_index + 1
    /\ xp_pc' = "outer"
    /\ UNCHANGED lines
    /\ UNCHANGED NotExtractProcedures

\* line 156: the condition of the outer loop is false
ReturnProcedures ==
    /\ xp_pc = "outer"
    /\ line_index > Len(lines)
    /\ xp_pc' = "done"
    /\ UNCHANGED <<lines, line_index, proc_code, xp_macro_info, examined>>
    /\ UNCHANGED NotExtractProcedures

ProceduresNext ==
    \/ SkipLine
    \/ StartProcedure
    \/ AppendLine
    \/ EndProcedure
    \/ ReturnProcedures

InitProcedures ==
    ProceduresInit /\ CAIdle /\ ECAIdle /\ MacroIdle /\ ProcessIdle /\ AnalysisIdle /\ ChatIdle

\* the statements of one call run one after the other without waiting
SpecProcedures == InitProcedures /\ [][ProceduresNext]_vars /\ WF_vars(ProceduresNext)

----------------------------------------------------------------------------
(* Claims about ConnectionAnalyzer, checked under SpecCA *)

ExcelSuffixes == {".xlsx", ".xlsm", ".XLSM"}
CsvSuffixes == {".csv", ".CSV"}

Range(s) == {s[i] : i \in 1..Len(s)}

\* C1: every connection record collected or returned by analyze_file,
\* whichever extractor built it, carries a Complexity Score that is an
\* integer from 1 to 10.
C1_ScoreInRange ==
    \A r \in Range(ca_connections) \cup Range(ca_result.value) :
        r.ComplexityScore \in 1..10

\* the cap is reached by a connections.xml record and the record is returned
C1_Witness ==
    /\ ca_result.kind = "return"
    /\ \E r \in Range(ca_result.value) :
         r.Site = "connections.xml" /\ r.ComplexityScore = 10
    /\ \E r \in Range(ca_result.value) :
         r.Site = "Power Query" /\ r.ComplexityScore = 10

\* C5: analyze_file raises FileNotFoundError for a missing path, ValueError
\* for an extension other than .xlsx/.xlsm/.csv (compared in lower case),
\* returns the Excel analysis for .xlsx/.xlsm, and returns a list of exactly
\* one record for .csv, which for an unreadable csv has Type
\* 'CSV File (Error)' and Complexity Score 1.
C5_AnalyzeFileContract ==
    ca_pc = "done" =>
      /\ ~ca_file.exists => ca_result = Raised("FileNotFoundError")
      /\ ca_file.exists /\ ca_file.suffix \notin ExcelSuffixes \cup CsvSuffixes
           => ca_result = Raised("ValueError")
      /\ ca_file.exists /\ ca_file.suffix \in ExcelSuffixes
           => /\ ca_result.kind = "return"
              /\ Len(ca_ran) >= 3
              /\ Range(ca_result.value) \subseteq Range(ca_connections)
      /\ ca_file.exists /\ ca_file.suffix \in CsvSuffixes
           => /\ ca_result.kind = "return"
              /\ Len(ca_result.value) = 1
              /\ ~ca_file.readable =>
                   /\ ca_result.value[1].Type = "CSV File (Error)"
                   /\ ca_result.value[1].ComplexityScore = 1

\* an unreadable csv under an upper-case extension was analysed
C5_Witness ==
    /\ ca_pc = "done"
    /\ ca_file.suffix = ".CSV"
    /\ ~ca_file.readable
    /\ ca_result.kind = "return"

FirstIndex(c, n) ==
    CHOOSE i \in 1..Len(c) :
        c[i].Name = n /\ \A j \in 1..(i - 1) : c[j].Name # n

\* C7: the list _analyze_excel_file returns has no two records of the same
\* Name, holds for each collected Name exactly the first collected record of
\* that Name, and keeps the kept records in collection order.
C7_FirstPerNameInOrder ==
    (ca_pc = "done" /\ ca_file.exists /\ ca_file.suffix \in ExcelSuffixes) =>
      LET v == ca_result.value
          c == ca_connections
      IN  /\ \A i, j \in 1..Len(v) : i # j => v[i].Name # v[j].Name
          /\ \A i \in 1..Len(c) :
               \E k \in 1..Len(v) : v[k] = c[FirstIndex(c, c[i].Name)]
          /\ \A k \in 1..Len(v) : v[k] = c[FirstIndex(c, v[k].Name)]
          /\ \A k, l \in 1..Len(v) :
               k < l => FirstIndex(c, v[k].Name) < FirstIndex(c, v[l].Name)

\* a later record of an already collected Name, different from the first,
\* was dropped
C7_Witness ==
    /\ ca_pc = "done"
    /\ ca_result.kind = "return"
    /\ Len(ca_result.value) >= 1
    /\ \E i, j \in 1..Len(ca_connections) :
         /\ i < j
         /\ ca_connections[i].Name = ca_connections[j].Name
         /\ ca_connections[i] # ca_connections[j]

ExcelRun == ca_file.exists /\ ca_file.suffix \in ExcelSuffixes

\* C8: _analyze_excel_file never raises; a failure inside an extractor is
\* logged, the extractors after it still run, and the records collected so
\* far are kept and returned de-duplicated.
C8_ExtractorFailuresContained ==
    /\ [](ExcelRun =>
            /\ ca_result.kind # "raise"
            /\ ca_logged \subseteq Range(ca_ran)
            /\ ca_pc \in {"dedup", "done"} =>
                 /\ Len(ca_ran) >= 3
                 /\ ca_ran[1] = "internal"
                 /\ ca_ran[2] = "power_query"
                 /\ ca_ran[3] = "openpyxl"
            /\ ca_pc = "done" =>
                 /\ ca_result.kind = "return"
                 /\ \A r \in Range(ca_connections) :
                      \E k \in 1..Len(ca_result.value) :
                         ca_result.value[k].Name = r.Name)
    /\ [][ca_pc # "analyze_file" => IsPrefix(ca_connections, ca_connections')]_vars

\* the first extractor failed after appending a record; the later ones ran
\* and the record was returned
C8_Witness ==
    /\ ca_pc = "done"
    /\ "internal" \in ca_logged
    /\ Len(ca_ran) >= 3
    /\ \E r \in Range(ca_result.value) : r.Site = "connections.xml"

----------------------------------------------------------------------------
(* Claims about ExcelConnectionAnalyzer, checked under SpecECA *)

XlsxPaths == {"book.xlsx", "BOOK.XLSX"}

\* the parts of the package were read and parsed: no handler logged a
\* failure and no read raised
PartsParse ==
    /\ eca_logged = {}
    /\ eca_result.exc \notin {"ValueError", "UnicodeDecodeError"}

\* C2: for a readable .xlsx package whose parts parse, analyze() returns the
\* list of all extracted connections without raising, each connection scored
\* and then given its purpose description, also when a connection has a
\* non-empty connection string, query text or data source.
C2_AnalyzeReturnsPostProcessed ==
    ( /\ eca_pc = "done"
      /\ eca_xlsx_format
      /\ eca_container = "zip"
      /\ PartsParse )
    => /\ eca_result = Returned(eca_connections)
       /\ eca_scored = Len(eca_connections)
       /\ \A c \in Range(eca_connections) : c.PurposeDescription # <<>>

C4_EightFields ==
    \A c \in Range(eca_connections) \cup Range(eca_result.value) :
        /\ DOMAIN c = ConnectionFields
        /\ DOMAIN c.TargetDataSources = 1..Len(c.TargetDataSources)

\* records of two different extraction steps are in self.connections
C4_Witness ==
    /\ eca_pc = "post_process"
    /\ Len(eca_connections) = 2
    /\ eca_connections[1].Name = "Query Connection"
    /\ eca_connections[2].Name = "Sheet Connection 2"
    /\ eca_connections[2].TargetDataSources = <<"db", "srv">>

\* C6: the file is treated as an OOXML package exactly when its path ends
\* with '.xlsx' whatever the case, and as an OLE workbook otherwise; when the
\* file is no valid container of the chosen format, analyze() raises
\* ValueError.
C6_FormatByExtension ==
    /\ eca_xlsx_format <=> eca_path \in XlsxPaths
    /\ eca_branch # "none" =>
         (eca_branch = "xlsx" <=> eca_path \in XlsxPaths)
    /\ ( /\ eca_pc = "done"
         /\ eca_container # (IF eca_path \in XlsxPaths THEN "zip" ELSE "ole") )
       => eca_result = Raised("ValueError")

\* an upper-case .XLSX path that holds an OLE workbook took the package
\* branch and analyze() raised ValueError
C6_Witness ==
    /\ eca_pc = "done"
    /\ eca_path = "BOOK.XLSX"
    /\ eca_container = "ole"
    /\ eca_branch = "xlsx"
    /\ eca_result = Raised("ValueError")

----------------------------------------------------------------------------
(* Claims about ExcelMacroAnalyzer, checked under SpecMacro *)

\* the indices of a sequence, in order
Indices(s) == [i \in 1..Len(s) |-> i]

\* the files handed to extract_macros
FilesProcessed == { <<"top", m_extracted[i].file>> : i \in 1..Len(m_extracted) }

MacroFilesInDirectory ==
    { <<"top", i>> : i \in { k \in 1..Len(m_files) : IsMacroSuffix(m_files[k]) } }

MacroFilesInSubdirectories ==
    { <<"sub", j>> : j \in { k \in 1..Len(m_sub) : IsMacroSuffix(m_sub[k]) } }

\* C9: run on a directory with -r/--recursive, the command line processes
\* the Excel files of the subdirectories as well as those directly in the
\* directory; without the flag only those directly in the directory.
C9_RecursiveProcessesSubdirectories ==
    ( /\ m_pc = "done"
      /\ m_args.kind = "dir"
      /\ m_result = "returned" )
    => FilesProcessed =
         MacroFilesInDirectory
         \cup (IF m_args.recursive THEN MacroFilesInSubdirectories ELSE {})

RECURSIVE Flatten(_)
Flatten(calls) ==
    IF calls = <<>> THEN <<>>
    ELSE Head(calls).procs \o Flatten(Tail(calls))

\* C10: the macro_info analyze_directory hands to generate_report is the
\* concatenation, in processing order, of the procedures extracted from
\* every .xls/.xlsm/.xlsb file directly in the directory: no procedure of an
\* earlier file is lost and none appears twice.
C10_ReportIsConcatenation ==
    ( m_args.kind = "dir" /\ m_report.made )
    => /\ m_report.macro_info = Flatten(m_extracted)
       /\ [i \in 1..Len(m_extracted) |-> m_extracted[i].file]
            = SelectSeq(Indices(m_files), LAMBDA i : IsMacroSuffix(m_files[i]))
       /\ \A i, j \in 1..Len(m_report.macro_info) :
            i # j => m_report.macro_info[i] # m_report.macro_info[j]

\* two files were processed, each with procedures, and the report was made
C10_Witness ==
    /\ m_args.kind = "dir"
    /\ m_report.made
    /\ Len(m_extracted) = 2
    /\ Len(m_extracted[1].procs) = 2
    /\ Len(m_extracted[2].procs) = 1
    /\ Len(m_report.macro_info) = 3

----------------------------------------------------------------------------
(* Claims about process_euda_file, checked under SpecProcess *)

\* what the loop logged for a chunk whose embedding was not stored
ChunkFailures == {"no_embedding", "failed", "rollback_failed"}

\* C11 as stated: process_euda_file returns True exactly when the file was
\* loaded, analysed and its metadata row stored; a failure to generate or
\* to store the embedding of a chunk neither makes it return False nor
\* stops the remaining chunks.
C11_TrueIffMetadataStored ==
    pe_pc = "done" =>
      /\ pe_result = "True" <=> (pe_loaded /\ pe_analysed /\ pe_stored)
      /\ (\E i \in 1..Len(pe_log) : pe_log[i] \in ChunkFailures)
           => (pe_result = "True" /\ pe_chunks = 0)

\* C11, amended: process_euda_file returns True exactly when the file was
\* loaded, analysed, its metadata row stored and no rollback inside
\* store_embedding raised; an empty embedding, or a failed store that is
\* rolled back, neither makes it return False nor stops the remaining
\* chunks, while a store failure whose rollback raises too ends the loop
\* with False.
C11_TrueIffStoredAndRollbacksSucceed ==
    pe_pc = "done" =>
      /\ pe_result = "True" <=>
           (pe_loaded /\ pe_analysed /\ pe_stored /\ ~pe_handler_failed)
      /\ (pe_stored /\ ~pe_handler_failed) => pe_chunks = 0
      /\ (pe_stored /\ pe_handler_failed) =>
           (pe_result = "False" /\ pe_chunks > 0)

\* one chunk had no embedding, the store of the next failed and was rolled
\* back, the third was stored, and True was returned
C11_Witness ==
    /\ pe_pc = "done"
    /\ pe_log = <<"no_embedding", "failed", "ok">>
    /\ pe_chunks = 0
    /\ pe_result = "True"

\* C12: on every exit path of process_euda_file after its components are
\* created, analyzer.close() and db.close() are each called exactly once,
\* and no database write happens after db.close().
C12_ClosedOnceNoLateWrite ==
    /\ pe_closes.analyzer <= 1
    /\ pe_closes.db <= 1
    /\ pe_pc = "done" => pe_closes = [analyzer |-> 1, db |-> 1]
    /\ ~pe_late_write

\* the exit through the except clause, after the metadata row was stored
\* and a chunk was written
C12_Witness ==
    /\ pe_pc = "done"
    /\ pe_result = "False"
    /\ pe_stored
    /\ pe_log = <<"ok", "rollback_failed">>
    /\ pe_conn = "closed"
    /\ pe_closes = [analyzer |-> 1, db |-> 1]

----------------------------------------------------------------------------
(* Further claims about ExcelMacroAnalyzer, checked under SpecMacro *)

\* C13: whenever analyze_file or analyze_directory has started the Excel
\* application, close_excel has run on it before the method returns or lets
\* an exception out, also when the directory holds no Excel files, a file
\* cannot be opened, or the report fails.
C13_ExcelQuitBeforeReturn ==
    /\ m_result # "none" => excel # "running"
    /\ m_pc = "done" =>
         \/ excel \in {"quit", "quit_failed"}
         \/ excel = "none" /\ (m_args.kind = "missing" \/ m_result = "exit")

\* a file could not be opened, the report failed, and Excel was quit before
\* the exception left analyze_directory
C13_Witness ==
    /\ m_pc = "done"
    /\ m_args.kind = "dir"
    /\ m_wb = NoWorkbook
    /\ Len(m_extracted) = 1
    /\ m_report.made
    /\ m_result = "raised"
    /\ excel = "quit"

\* C17: in extract_macros every workbook that was opened has had
\* wb.Close(False) called on it at least once when the method is left, and
\* is closed whenever the method returns: on normal completion, with an
\* inaccessible VBA project, after an error in one component, and after an
\* error elsewhere once the workbook is open.
C17_OpenedWorkbookClosed ==
    m_wb.path # "not_opened" =>
      /\ m_wb.close_calls >= 1
      /\ m_wb.path # "close_failed" => m_wb.closed

\* an error after the workbook was opened, outside the handling of one
\* component: the handler closed the workbook
C17_Witness ==
    /\ m_wb = Workbook("error", 1, TRUE)
    /\ m_pending = "none"
    /\ m_pc \in {"loop", "report"}

----------------------------------------------------------------------------
(* Claims about analyze_excel_euda *)

\* C14: the complexity_score analyze_excel_euda computes is an integer
\* from 0 to 100, whatever the numbers of sheets, data tables, formula cells
\* and cells are (no cells at all included), and the report shows that
\* score out of 100.
C14_ScoreWithinHundred ==
    /\ ae_pc \in {"scored", "done"} /\ ~ae_report.error =>
         complexity_score \in 0..100
    /\ ae_report.written /\ ~ae_report.error =>
         /\ ae_report.score = complexity_score
         /\ ae_report.out_of = 100

\* every cap of the score is reached: more than ten sheets and data tables,
\* more than 300 formulas, every cell a formula
C14_Witness ==
    /\ ae_pc = "done"
    /\ sheet_count > 10
    /\ data_tables > 10
    /\ formulas_count > 300
    /\ formula_cells = total_cells
    /\ ae_report.score = 100

\* a workbook without cells is scored as well
C14_WitnessNoCells ==
    ae_pc = "done" /\ total_cells = 0 /\ sheet_count > 0 /\ ~ae_report.error

----------------------------------------------------------------------------
(* Claims about the chat of main *)

\* C15, as stated: after any input that contains "clear" or "reset" the
\* chat history is exactly the one assistant message "Chat history
\* cleared...", whatever else the input contains and whatever the history
\* held before.
C15_ClearedWhateverElse ==
    chat_handled /\ (user_input.clear \/ user_input.reset) =>
        messages = <<Cleared>>

\* C15, as the code has it: after an input that contains "clear" or "reset"
\* and is not taken for an Excel path (it neither ends in .xlsx, .xls or
\* .xlsm nor contains both "analyze" and ".xls") the chat history is exactly
\* the one assistant message "Chat history cleared..."; an input taken for
\* an Excel path is answered with the report or an error message appended
\* to the history, "clear" or "reset" in it or not.
C15_ClearedUnlessExcelPath ==
    /\ /\ chat_handled
       /\ user_input.clear \/ user_input.reset
       /\ ~(user_input.excel_ext \/ (user_input.analyze /\ user_input.xls))
       => messages = <<Cleared>>
    /\ chat_handled /\ (user_input.excel_ext \/ (user_input.analyze /\ user_input.xls)) =>
         /\ Len(messages) = Len(chat_before) + 2
         /\ SubSeq(messages, 1, Len(chat_before)) = chat_before
         /\ messages[Len(messages)].content \in {"report", "Error processing file"}

\* a history of several messages is cleared by an input that also asks for
\* help
C15_Witness ==
    /\ chat_handled
    /\ user_input.reset /\ user_input.help /\ user_input.euda
    /\ Len(chat_before) > 1
    /\ messages = <<Cleared>>

\* an input with "clear" in an Excel path is analysed
C15_WitnessPath ==
    /\ chat_handled
    /\ user_input.clear /\ user_input.excel_ext
    /\ Len(messages) > 1

----------------------------------------------------------------------------
(* Further claims about ExcelConnectionAnalyzer *)

\* the parts _analyze_xlsx reads and processes inside a try of its own
\* (lines 143-149, 157-164, 167-176), and the parts it reads outside any
\* (lines 132, 139, 153)
GuardedParts == {"customXml", "power_query", "worksheets"}

UnguardedReads == {"connections.xml", "queries", "vbaProject.bin"}

\* C16, as stated: in _analyze_xlsx a failure while reading or processing
\* any one part is caught and logged; it does not abort the analysis of the
\* remaining parts and discards no connection collected so far.
C16_PartFailuresContained ==
    [][(eca_pc \in GuardedParts \cup UnguardedReads) =>
         (eca_pc' # "done" /\ IsPrefix(eca_connections, eca_connections'))]_vars

\* C16, as the code has it: no step of _analyze_xlsx removes a connection
\* from self.connections, and a failure while processing any part, or while
\* reading a customXml part, a Power Query part or a worksheet part, is
\* caught and logged and the next part is analysed.  Only a failure while
\* reading or decoding connections.xml, a query part or vbaProject.bin
\* ends _analyze_xlsx: it is logged by no handler of the part, the
\* remaining parts are not analysed and analyze raises.
C16_FailuresCaughtExceptUnguardedReads ==
    [][(eca_pc \in GuardedParts \cup UnguardedReads) =>
         ( /\ IsPrefix(eca_connections, eca_connections')
           /\ eca_pc' # eca_pc
           /\ eca_pc' = "done" =>
                /\ eca_pc \in UnguardedReads
                /\ eca_pc \notin eca_logged'
                /\ eca_result' \in {Raised("UnicodeDecodeError"), Raised("ValueError")}
                /\ eca_connections' = eca_connections )]_vars

\* failures of connections.xml and of a customXml part were caught and
\* logged, the connections collected are kept, the worksheets were reached
C16_Witness ==
    /\ eca_pc = "post_process"
    /\ {"connections.xml", "customXml", "worksheets"} \subseteq eca_logged
    /\ Len(eca_connections) > 0

\* a query part that cannot be decoded ends the analysis
C16_WitnessUnguarded ==
    /\ eca_pc = "done"
    /\ eca_branch = "xlsx"
    /\ eca_result = Raised("UnicodeDecodeError")
    /\ "connections.xml" \in eca_logged
    /\ Len(eca_connections) > 0

----------------------------------------------------------------------------
(* Further claims about ConnectionAnalyzer *)

\* C18: _analyze_excel_file attempts COM extraction only after the
\* internal, Power Query and openpyxl extractors have all run, in that
\* order, and only when os.name is "nt" and they collected no connection;
\* once a connection is collected COM extraction is never attempted.
C18_ComOnlyAsLastResort ==
    [][("com" \notin Range(ca_ran) /\ "com" \in Range(ca_ran')) =>
         ( /\ ca_ran = <<"internal", "power_query", "openpyxl">>
           /\ ca_ran' = Append(ca_ran, "com")
           /\ os_name = "nt"
           /\ ca_connections = <<>> )]_vars

\* COM extraction ran on Windows after the three others found nothing, and
\* its records were returned
C18_Witness ==
    /\ ca_pc = "done"
    /\ ca_ran = <<"internal", "power_query", "openpyxl", "com">>
    /\ os_name = "nt"
    /\ Len(ca_connections) > 0

\* on Windows with a connection collected, COM extraction was skipped
C18_WitnessSkipped ==
    /\ ca_pc = "done"
    /\ os_name = "nt"
    /\ ca_ran = <<"internal", "power_query", "openpyxl">>
    /\ Len(ca_connections) > 0

----------------------------------------------------------------------------
(* Claims about _extract_procedures *)

\* the lines of the records appended so far, record after record
RECURSIVE CodeOf(_)
CodeOf(records) ==
    IF records = <<>> THEN <<>>
    ELSE Head(records).Code \o CodeOf(Tail(records))

CodeLines == CodeOf(xp_macro_info)

\* C19: _extract_procedures terminates for every module text and makes a
\* single pass: the line index strictly increases, every line is examined at
\* most once, no line is in the Code of two records, and the records are
\* appended in source order.
C19_SinglePassTerminates ==
    /\ <>(xp_pc = "done")
    /\ [][line_index' > line_index]_line_index
    /\ [](\A k \in 1..Len(lines) : examined[k] <= 1)
    /\ [](\A a, b \in 1..Len(CodeLines) : a < b => CodeLines[a] < CodeLines[b])
    /\ [](xp_pc = "done" => line_index \in {Len(lines) + 1, Len(lines) + 2})

\* two procedures were recorded one after the other, the second without
\* its end line, and every line of the module was examined once
C19_Witness ==
    /\ xp_pc = "done"
    /\ Len(xp_macro_info) = 2
    /\ xp_macro_info[1].LineCount > 1
    /\ xp_macro_info[2].start_line = Len(lines)
    /\ \A k \in 1..Len(lines) : examined[k] = 1

====
